---- MODULE Spec2Model ----
(***************************************************************************)
(* Model of run.py: one pass of the "Radar IA" digest.                     *)
(*   main: read the environment, fetch_rss_items, top-5 cut, build_prompt, *)
(*   the generation call with its except-branch fallback, the 3800-char    *)
(*   truncation with textwrap.shorten, send_telegram_message.              *)
(*                                                                         *)
(* Text is modelled as a sequence of chunks.  A chunk is a maximal run of  *)
(* whitespace (ws = TRUE) or of non-whitespace characters (ws = FALSE),    *)
(* with its length n in characters and a label (id, k) that identifies its *)
(* content.  Two strings are equal iff their chunk sequences are equal.    *)
(* Words contain no hyphen, so textwrap splits a string exactly at its     *)
(* whitespace.                                                             *)
(***************************************************************************)
EXTENDS Integers, Sequences, FiniteSets, TLC

VARIABLES pc, env, response, items, top5, prompt, gen, text, calls, err

vars == <<pc, env, response, items, top5, prompt, gen, text, calls, err>>

(***************************************************************************)
(* Bounds of the explored inputs                                           *)
(***************************************************************************)
\* longest feed whose items range over every kind of raw item
MaxFeed == 2
\* longest feed of well-formed items (dated or undated)
MaxLongFeed == 11
\* most items without a date in such a feed
MaxUndated == 2
\* length of a title word and of a link, in characters
TitleLen == 12
LinkLen == 30

(***************************************************************************)
(* Strings                                                                 *)
(***************************************************************************)
W(id, k, n) == [ws |-> FALSE, n |-> n, id |-> id, k |-> k]
Sp(n) == [ws |-> TRUE, n |-> n, id |-> "sp", k |-> 0]
Nl(n) == [ws |-> TRUE, n |-> n, id |-> "nl", k |-> 0]

EmptyStr == <<>>

\* len(s)
RECURSIVE StrLen(_)
StrLen(s) == IF s = <<>> THEN 0 ELSE Head(s).n + StrLen(Tail(s))

\* s + t: adjacent whitespace runs become one run
Concat(s, t) ==
    IF s = <<>> THEN t
    ELSE IF t = <<>> THEN s
    ELSE IF s[Len(s)].ws /\ t[1].ws
         THEN SubSeq(s, 1, Len(s) - 1)
              \o << [ws |-> TRUE, n |-> s[Len(s)].n + t[1].n,
                     id |-> IF s[Len(s)].id = "nl" \/ t[1].id = "nl" THEN "nl" ELSE "sp",
                     k |-> 0] >>
              \o Tail(t)
         ELSE s \o t

RECURSIVE LStrip(_)
LStrip(s) == IF s = <<>> THEN <<>>
             ELSE IF Head(s).ws THEN LStrip(Tail(s)) ELSE s

RECURSIVE RStrip(_)
RStrip(s) == IF s = <<>> THEN <<>>
             ELSE IF s[Len(s)].ws THEN RStrip(SubSeq(s, 1, Len(s) - 1)) ELSE s

\* str.strip()
Strip(s) == RStrip(LStrip(s))

\* s[:m]
RECURSIVE Prefix(_, _)
Prefix(s, m) ==
    IF s = <<>> \/ m <= 0 THEN <<>>
    ELSE IF Head(s).n <= m THEN <<Head(s)>> \o Prefix(Tail(s), m - Head(s).n)
    ELSE << [Head(s) EXCEPT !.n = m] >>

(***************************************************************************)
(* The feed document                                                       *)
(***************************************************************************)
\* an element's child: missing, present without text, or present with text
NoChild == [child |-> FALSE, hasText |-> FALSE, text |-> <<>>]
NoText == [child |-> TRUE, hasText |-> FALSE, text |-> <<>>]
Text(s) == [child |-> TRUE, hasText |-> TRUE, text |-> s]

\* _get_text(elem, tag), applied to the child elem.find(tag)
GetText(c) == IF ~c.child \/ ~c.hasText THEN EmptyStr ELSE Strip(c.text)

\* datetime values; None is the value without a date
None == [isNone |-> TRUE, aware |-> FALSE, local |-> 0, off |-> 0]
DateTime(aware, local, off) == [isNone |-> FALSE, aware |-> aware, local |-> local, off |-> off]

\* a date string is one word; its id tells the format and the zone, k the
\* local time in hours
DateIds == {"rfc+0000", "rfc+0300", "rfc-0000"}
ZoneOffset(id) == IF id = "rfc+0300" THEN 3 ELSE 0

\* email.utils.parsedate_to_datetime: a datetime, or an exception
ParseDateToDatetime(pub) ==
    IF Len(pub) = 1 /\ pub[1].id \in DateIds
    THEN [raised |-> FALSE,
          value |-> DateTime(pub[1].id # "rfc-0000", pub[1].k, ZoneOffset(pub[1].id))]
    ELSE [raised |-> TRUE, value |-> None]

\* lines 46-51: published_dt
PublishedDt(pub) ==
    IF pub # EmptyStr
    THEN IF ParseDateToDatetime(pub).raised THEN None
         ELSE ParseDateToDatetime(pub).value
    ELSE None

\* one <item> of the channel
RawItem(title, link, description, pubDate) ==
    [title |-> title, link |-> link, description |-> description, pubDate |-> pubDate]

\* the test of line 53 with "or" for "and"
KeepEither(title, link) == title # EmptyStr \/ link # EmptyStr

\* line 53: the item is kept
Keep(title, link) == title # EmptyStr /\ link # EmptyStr

\* the loop body with a date required of the item as well
CandidateDated(raw) ==
    LET title == GetText(raw.title)
        link == GetText(raw.link)
        desc == GetText(raw.description)
        pub == GetText(raw.pubDate)
    IN  IF Keep(title, link) /\ ~PublishedDt(pub).isNone
        THEN << [title |-> title, link |-> link, published_dt |-> PublishedDt(pub),
                 description |-> desc, pub_raw |-> pub] >>
        ELSE <<>>

\* lines 41-62: the dict appended for one <item>, as a sequence of 0 or 1 dicts
Candidate(raw) ==
    LET title == GetText(raw.title)
        link == GetText(raw.link)
        desc == GetText(raw.description)
        pub == GetText(raw.pubDate)
    IN  IF Keep(title, link)
        THEN << [title |-> title, link |-> link, published_dt |-> PublishedDt(pub),
                 description |-> desc, pub_raw |-> pub] >>
        ELSE <<>>

\* lines 39-62: the loop over channel.findall("item")
RECURSIVE BuildItems(_)
BuildItems(feed) ==
    IF feed = <<>> THEN <<>>
    ELSE BuildItems(SubSeq(feed, 1, Len(feed) - 1)) \o Candidate(feed[Len(feed)])

(***************************************************************************)
(* The sort of line 65                                                     *)
(***************************************************************************)
\* the instant of an aware datetime, the wall clock of a naive one
Instant(d) == IF d.aware THEN d.local - d.off ELSE d.local

\* datetime == datetime (None == None is True, naive == aware is False)
DtEq(a, b) ==
    IF a.isNone \/ b.isNone THEN a.isNone /\ b.isNone
    ELSE a.aware = b.aware /\ Instant(a) = Instant(b)

\* datetime < datetime: "true", "false", or "raise" (TypeError)
DtLess(a, b) ==
    IF a.isNone \/ b.isNone THEN "raise"
    ELSE IF a.aware # b.aware THEN "raise"
    ELSE IF Instant(a) < Instant(b) THEN "true" ELSE "false"

\* the key without its "is None" component
SortKeyNoFlag(x) == << FALSE, x.published_dt >>

\* the key of line 65: (published_dt is None, published_dt)
SortKey(x) == << x.published_dt.isNone, x.published_dt >>

\* tuple < tuple: the first differing component decides
KeyLess(a, b) ==
    IF a[1] # b[1] THEN (IF ~a[1] /\ b[1] THEN "true" ELSE "false")
    ELSE IF DtEq(a[2], b[2]) THEN "false"
    ELSE DtLess(a[2], b[2])

\* list.sort compares, directly, every two elements that end up adjacent, so
\* it raises as soon as two keys whose comparison raises are in the list:
\* keys that compare without raising fall into classes (undated, naive,
\* aware), each class is contiguous in any order the sort can establish, and
\* the comparison across two classes of dated keys raises
SortRaises(s) ==
    \E i, j \in 1..Len(s) : i # j /\ KeyLess(SortKey(s[i]), SortKey(s[j])) = "raise"

\* x goes before the first element whose key is smaller (reverse = True keeps
\* the original order of equal keys)
RECURSIVE InsertDesc(_, _)
InsertDesc(sorted, x) ==
    IF sorted = <<>> THEN <<x>>
    ELSE IF KeyLess(SortKey(Head(sorted)), SortKey(x)) = "true" THEN <<x>> \o sorted
    ELSE <<Head(sorted)>> \o InsertDesc(Tail(sorted), x)

RECURSIVE SortDesc(_)
SortDesc(s) ==
    IF s = <<>> THEN <<>>
    ELSE InsertDesc(SortDesc(SubSeq(s, 1, Len(s) - 1)), s[Len(s)])

\* s[:m] of a list
Take(s, m) == SubSeq(s, 1, IF Len(s) < m THEN Len(s) ELSE m)

(***************************************************************************)
(* fetch_rss_items(rss_url, limit)                                         *)
(***************************************************************************)
Returned(v) == [raised |-> "none", value |-> v]
Raised(name) == [raised |-> name, value |-> <<>>]

\* r.raise_for_status()
RaiseForStatus(status) == status >= 400

FetchRssItems(resp, limit) ==
    IF resp.net # "ok" THEN Raised(resp.net)
    ELSE IF RaiseForStatus(resp.status) THEN Raised("HTTPError")
    ELSE IF ~resp.wellformed THEN Raised("ParseError")
    ELSE IF resp.channel = "none" THEN Returned(<<>>)
    ELSE IF SortRaises(BuildItems(resp.feed)) THEN Raised("TypeError")
    ELSE Returned(Take(SortDesc(BuildItems(resp.feed)), limit))

(***************************************************************************)
(* build_prompt(items, topic_name)                                         *)
(***************************************************************************)
ExcerptCap == 300

\* datetime.isoformat()
IsoFormat(d) ==
    IF ~d.aware THEN << W("iso", d.local, 19) >>
    ELSE IF d.off = 3 THEN << W("iso+03:00", d.local, 25) >>
    ELSE << W("iso+00:00", d.local, 25) >>

SemData == << W("sem", 0, 3), Sp(1), W("data", 0, 4) >>

\* line 75: dt
BulletDate(it) ==
    IF ~it.published_dt.isNone THEN IsoFormat(it.published_dt)
    ELSE IF it.pub_raw # EmptyStr THEN it.pub_raw ELSE SemData

\* lines 74-81: one bullet per item, numbered from 1
Bullets(its) ==
    [i \in 1..Len(its) |->
        [index |-> i, title |-> its[i].title, date |-> BulletDate(its[i]),
         link |-> its[i].link, excerpt |-> Prefix(its[i].description, ExcerptCap)]]

BuildPrompt(its, topic_name) == [topic |-> topic_name, bullets |-> Bullets(its)]

(***************************************************************************)
(* The texts main composes                                                 *)
(***************************************************************************)
\* the notice without the source
ReadFailNoticeNoUrl(rss_url) ==
    << W("Radar", 0, 5), Sp(1), W("IA:", 0, 3), Sp(1), W("nao", 0, 3), Sp(1),
       W("consegui", 0, 8), Sp(1), W("ler", 0, 3), Sp(1), W("o", 0, 1), Sp(1),
       W("RSS", 0, 3), Sp(1), W("agora.", 0, 6) >>

\* line 139: "Radar IA: nao consegui ler o RSS agora.\nFonte: {rss_url}"
ReadFailNotice(rss_url) ==
    << W("Radar", 0, 5), Sp(1), W("IA:", 0, 3), Sp(1), W("nao", 0, 3), Sp(1),
       W("consegui", 0, 8), Sp(1), W("ler", 0, 3), Sp(1), W("o", 0, 1), Sp(1),
       W("RSS", 0, 3), Sp(1), W("agora.", 0, 6), Nl(1), W("Fonte:", 0, 6), Sp(1) >>
    \o rss_url

\* type(e).__name__
ExcName(name) == << W(name, 0, IF name = "RuntimeError" THEN 12 ELSE 18) >>

\* line 159: "Radar IA (fallback) - nao consegui resumir via OpenAI.\nMotivo: {name}\n"
FallbackHeader(name) ==
    << W("Radar", 0, 5), Sp(1), W("IA", 0, 2), Sp(1), W("(fallback)", 0, 10), Sp(1),
       W("emdash", 0, 1), Sp(1), W("nao", 0, 3), Sp(1), W("consegui", 0, 8), Sp(1),
       W("resumir", 0, 7), Sp(1), W("via", 0, 3), Sp(1), W("OpenAI.", 0, 7), Nl(1),
       W("Motivo:", 0, 7), Sp(1) >>
    \o ExcName(name) \o << Nl(1) >>

\* line 161: "- {title}\n  {link}"
FallbackLine(it) == << W("-", 0, 1), Sp(1) >> \o it.title \o << Nl(3) >> \o it.link

\* "\n".join(lines)
RECURSIVE JoinNl(_)
JoinNl(lines) ==
    IF lines = <<>> THEN EmptyStr
    ELSE IF Len(lines) = 1 THEN lines[1]
    ELSE Concat(Concat(JoinNl(SubSeq(lines, 1, Len(lines) - 1)), << Nl(1) >>),
                lines[Len(lines)])

\* lines 159-162: the fallback listing
FallbackLines(its) == [i \in 1..Len(its) |-> FallbackLine(its[i])]
FallbackText(its, name) == JoinNl(<< FallbackHeader(name) >> \o FallbackLines(its))

(***************************************************************************)
(* textwrap.shorten(text, width, placeholder), line 166                    *)
(***************************************************************************)
Budget == 3800
Placeholder == << Nl(2), W("(...)", 0, 5) >>

\* ' '.join(text.strip().split())
Collapse(s) ==
    LET t == Strip(s) IN [i \in 1..Len(t) |-> IF t[i].ws THEN Sp(1) ELSE t[i]]

\* chunk.strip() == ''
IsBlank(c) == c.ws \/ c.n = 0

\* the inner loop of _wrap_chunks: chunks are taken while they fit the line
RECURSIVE FillLine(_, _, _)
FillLine(cur, rest, width) ==
    IF rest # <<>> /\ StrLen(cur) + Head(rest).n <= width
    THEN FillLine(Append(cur, Head(rest)), Tail(rest), width)
    ELSE [cur |-> cur, rest |-> rest]

\* _handle_long_word: a chunk longer than the line is cut at the space left
HandleLongWord(l, width) ==
    IF l.rest # <<>> /\ Head(l.rest).n > width
    THEN LET space_left == width - StrLen(l.cur)
         IN  [cur |-> Append(l.cur, [Head(l.rest) EXCEPT !.n = space_left]),
              rest |-> << [Head(l.rest) EXCEPT !.n = Head(l.rest).n - space_left] >>
                       \o Tail(l.rest)]
    ELSE l

\* a whitespace chunk at the end of the line is dropped
DropTrailing(l) ==
    IF l.cur # <<>> /\ IsBlank(l.cur[Len(l.cur)])
    THEN [l EXCEPT !.cur = SubSeq(l.cur, 1, Len(l.cur) - 1)]
    ELSE l

\* the loop that makes room for the placeholder, one chunk at a time
RECURSIVE PopLoop(_, _, _)
PopLoop(cur, width, placeholder) ==
    IF cur = <<>> THEN LStrip(placeholder)
    ELSE IF ~IsBlank(cur[Len(cur)]) /\ StrLen(cur) + StrLen(placeholder) <= width
         THEN cur \o placeholder
         ELSE PopLoop(SubSeq(cur, 1, Len(cur) - 1), width, placeholder)

\* _wrap_chunks with max_lines = 1: the only line
WrapChunks(chunks, width, placeholder) ==
    LET l == DropTrailing(HandleLongWord(FillLine(<<>>, chunks, width), width))
    IN  IF l.cur = <<>> THEN EmptyStr
        ELSE IF (l.rest = <<>> \/ (Len(l.rest) = 1 /\ IsBlank(l.rest[1])))
                /\ StrLen(l.cur) <= width
             THEN l.cur
             ELSE PopLoop(l.cur, width, placeholder)

Shorten(s, width, placeholder) == WrapChunks(Collapse(s), width, placeholder)

\* lines 165-166
BoundText(s) == IF StrLen(s) > Budget THEN Shorten(s, Budget, Placeholder) ELSE s

(***************************************************************************)
(* Inputs: the environment, the feed, the generation and delivery results  *)
(***************************************************************************)
Limit == 10
Top == 5

Secret == << W("secret", 0, 40) >>
EnvValues == { EmptyStr, << Sp(1) >>, << Sp(1) >> \o Secret }
Envs == [TELEGRAM_BOT_TOKEN : EnvValues, TELEGRAM_CHAT_ID : EnvValues,
         OPENAI_API_KEY : EnvValues]

\* RSS_URL_DEFAULT and the default TOPIC_NAME
RssUrl == << W("rss_url", 0, 31) >>
TopicName == << W("topic", 0, 40) >>

TitleText(i) ==
    Text(<< Nl(1), W("title", i, TitleLen), Sp(2), W("cont", i, TitleLen), Sp(1) >>)
LinkText(i) == Text(<< Sp(1), W("link", i, LinkLen), Nl(1) >>)
DescText(i) ==
    IF i % 2 = 0 THEN NoChild
    ELSE Text(<< Sp(1), W("desc", i, 280), Sp(1), W("tail", i, 100) >>)
DateText(id, local) == Text(<< Sp(1), W(id, local, 31), Nl(1) >>)

Shapes == { "ok", "title_blank", "link_missing" }
Pubs == { "missing", "empty", "junk", "aware", "naive", "old" }

PubOf(p) ==
    CASE p = "missing" -> NoChild
      [] p = "empty" -> NoText
      [] p = "junk" -> Text(<< W("junk", 0, 9) >>)
      [] p = "aware" -> DateText("rfc+0300", 992)
      [] p = "naive" -> DateText("rfc-0000", 991)
      [] p = "old" -> DateText("rfc+0000", 100)

RichItem(i, shape, p) ==
    RawItem(IF shape = "title_blank" THEN Text(<< Nl(3) >>) ELSE TitleText(i),
            IF shape = "link_missing" THEN NoChild ELSE LinkText(i),
            DescText(i),
            PubOf(p))

RichFeeds ==
    UNION { { [i \in 1..n |-> RichItem(i, f[i][1], f[i][2])] :
              f \in [1..n -> Shapes \X Pubs] } : n \in 0..MaxFeed }

\* the hour of publication of the i-th item of a long feed: not in order,
\* with a tie and with one old item
LongTime(i) == << 990, 985, 100, 995, 985, 992, 988, 991, 999, 980, 993, 986, 994, 987 >>[i]

LongItem(i, dated) ==
    RawItem(TitleText(i), LinkText(i), DescText(i),
            IF dated
            THEN DateText(IF i % 3 = 0 THEN "rfc+0300" ELSE "rfc+0000", LongTime(i))
            ELSE NoChild)

LongFeeds ==
    UNION { { [i \in 1..n |-> LongItem(i, i \notin U)] :
              U \in { V \in SUBSET (1..n) : Cardinality(V) <= MaxUndated } } :
            n \in (Top + 1)..MaxLongFeed }

\* two items whose titles alone exceed the budget of the message
HugeItem(i) ==
    RawItem(Text(<< W("title", i, 3000) >>), LinkText(i), DescText(i),
            DateText("rfc+0000", LongTime(i)))
HugeFeed == << HugeItem(1), HugeItem(2) >>

Resp(net, status, wellformed, channel, feed) ==
    [net |-> net, status |-> status, wellformed |-> wellformed,
     channel |-> channel, feed |-> feed]

NoResponse == Resp("none", 0, FALSE, "none", <<>>)

Responses ==
    { Resp("ConnectionError", 0, FALSE, "none", <<>>),
      Resp("ok", 404, FALSE, "none", <<>>),
      Resp("ok", 500, FALSE, "none", <<>>),
      Resp("ok", 200, FALSE, "none", <<>>),
      Resp("ok", 200, TRUE, "none", <<>>) }
    \cup { Resp("ok", 200, TRUE, "child", f) : f \in RichFeeds \cup LongFeeds }
    \cup { Resp("ok", 200, TRUE, "nested", f) :
           f \in { <<>>, << LongItem(1, TRUE), LongItem(2, FALSE) >>, HugeFeed } }

\* client.responses.create: an exception, or a response with output_text
GenRaised(name) == [raised |-> name, isNone |-> FALSE, output_text |-> EmptyStr]
GenReturned(s) == [raised |-> "none", isNone |-> FALSE, output_text |-> s]
NoGen == [raised |-> "none", isNone |-> TRUE, output_text |-> EmptyStr]

GenOutcomes ==
    { GenRaised("APIConnectionError"), GenRaised("PermissionDenied"),
      NoGen,
      GenReturned(EmptyStr),
      GenReturned(<< Nl(2), Sp(1) >>),
      \* short text
      GenReturned(<< Sp(1), W("g", 1, 100), Nl(2), W("g", 2, 200), Nl(1) >>),
      \* 3800 characters
      GenReturned(<< W("g", 1, 1900), Sp(1), W("g", 2, 1899) >>),
      \* 3801 characters, 3800 with the blank line collapsed
      GenReturned(<< W("g", 1, 1900), Nl(2), W("g", 2, 1899) >>),
      \* 5000 characters in one word
      GenReturned(<< W("g", 1, 5000) >>),
      \* 5000 characters in three words
      GenReturned(<< W("g", 1, 2000), Sp(1), W("g", 2, 1500), Sp(1), W("g", 3, 1498) >>),
      \* 5000 characters, a word ends at character 3793
      GenReturned(<< W("g", 1, 3793), Sp(1), W("g", 2, 1206) >>) }

\* requests.post, raise_for_status and r.json() of send_telegram_message
DeliverOutcomes ==
    { [net |-> "ok", status |-> 200, json |-> TRUE],
      [net |-> "ConnectionError", status |-> 0, json |-> FALSE],
      [net |-> "ok", status |-> 400, json |-> TRUE],
      [net |-> "ok", status |-> 200, json |-> FALSE] }

(***************************************************************************)
(* send_telegram_message(bot_token, chat_id, text)                         *)
(***************************************************************************)
\* the call without r.raise_for_status()
SendTelegramMessageNoRaise(o) ==
    IF o.net # "ok" THEN o.net
    ELSE IF ~o.json THEN "JSONDecodeError"
    ELSE "none"

SendTelegramMessage(o) ==
    IF o.net # "ok" THEN o.net
    ELSE IF RaiseForStatus(o.status) THEN "HTTPError"
    ELSE IF ~o.json THEN "JSONDecodeError"
    ELSE "none"

\* the log of the calls to the collaborators, with what the transport returned
Call(op, arg, net, status, body) ==
    [op |-> op, arg |-> arg, net |-> net, status |-> status, body |-> body]

(***************************************************************************)
(* main()                                                                  *)
(***************************************************************************)
Init ==
    /\ pc = "start"
    /\ env = [TELEGRAM_BOT_TOKEN |-> EmptyStr, TELEGRAM_CHAT_ID |-> EmptyStr,
              OPENAI_API_KEY |-> EmptyStr]
    /\ response = NoResponse
    /\ items = <<>>
    /\ top5 = <<>>
    /\ prompt = BuildPrompt(<<>>, TopicName)
    /\ gen = NoGen
    /\ text = EmptyStr
    /\ calls = <<>>
    /\ err = "none"

\* lines 114-132: the settings are read and stripped; a missing one exits
ConfigOk(e) ==
    /\ e.TELEGRAM_BOT_TOKEN # EmptyStr
    /\ e.TELEGRAM_CHAT_ID # EmptyStr
    /\ e.OPENAI_API_KEY # EmptyStr

ReadEnv ==
    /\ pc = "start"
    /\ \E e \in Envs :
         /\ env' = [v \in DOMAIN e |-> Strip(e[v])]
         /\ pc' = IF ConfigOk(env') THEN "fetch" ELSE "exit"
         /\ err' = IF ConfigOk(env') THEN "none" ELSE "SystemExit"
    /\ UNCHANGED <<response, items, top5, prompt, gen, text, calls>>

\* line 134
Fetch ==
    /\ pc = "fetch"
    /\ \E r \in Responses :
         LET res == FetchRssItems(r, Limit)
         IN  /\ response' = r
             /\ calls' = Append(calls, Call("get", RssUrl, r.net, r.status, r.wellformed))
             /\ items' = res.value
             /\ err' = res.raised
             /\ pc' = IF res.raised = "none" THEN "fetched" ELSE "aborted"
    /\ UNCHANGED <<env, top5, prompt, gen, text>>

\* lines 135-141
SendReadFail ==
    /\ pc = "fetched"
    /\ items = <<>>
    /\ text' = ReadFailNotice(RssUrl)
    /\ \E o \in DeliverOutcomes :
         /\ calls' = Append(calls, Call("deliver", text', o.net, o.status, o.json))
         /\ err' = SendTelegramMessage(o)
         /\ pc' = IF SendTelegramMessage(o) = "none" THEN "done" ELSE "aborted"
    /\ UNCHANGED <<env, response, items, top5, prompt, gen>>

\* lines 143-146
SelectTop5 ==
    /\ pc = "fetched"
    /\ items # <<>>
    /\ top5' = Take(items, Top)
    /\ prompt' = BuildPrompt(top5', TopicName)
    /\ pc' = "generate"
    /\ UNCHANGED <<env, response, items, gen, text, calls, err>>

\* the emptiness test on output_text before it is stripped
GeneratedTextNoStrip(g, its) ==
    IF g.raised # "none" THEN FallbackText(its, g.raised)
    ELSE IF (IF g.isNone THEN EmptyStr ELSE g.output_text) = EmptyStr
         THEN FallbackText(its, "RuntimeError")
         ELSE Strip(g.output_text)

\* lines 148-162: the text after the try statement
GeneratedText(g, its) ==
    IF g.raised # "none" THEN FallbackText(its, g.raised)
    ELSE IF Strip(IF g.isNone THEN EmptyStr ELSE g.output_text) = EmptyStr
         THEN FallbackText(its, "RuntimeError")
         ELSE Strip(g.output_text)

Generate ==
    /\ pc = "generate"
    /\ \E g \in GenOutcomes :
         /\ gen' = g
         /\ calls' = Append(calls, Call("generate", EmptyStr, g.raised, 0, ~g.isNone))
         /\ text' = GeneratedText(g, top5)
    /\ pc' = "bound"
    /\ UNCHANGED <<env, response, items, top5, prompt, err>>

\* lines 165-166
Bound ==
    /\ pc = "bound"
    /\ text' = BoundText(text)
    /\ pc' = "deliver"
    /\ UNCHANGED <<env, response, items, top5, prompt, gen, calls, err>>

\* line 168
Deliver ==
    /\ pc = "deliver"
    /\ \E o \in DeliverOutcomes :
         /\ calls' = Append(calls, Call("deliver", text, o.net, o.status, o.json))
         /\ err' = SendTelegramMessage(o)
         /\ pc' = IF SendTelegramMessage(o) = "none" THEN "done" ELSE "aborted"
    /\ UNCHANGED <<env, response, items, top5, prompt, gen, text>>

Next ==
    \/ ReadEnv
    \/ Fetch
    \/ SendReadFail
    \/ SelectTop5
    \/ Generate
    \/ Bound
    \/ Deliver

Spec == Init /\ [][Next]_vars

TypeOK == pc \in { "start", "exit", "fetch", "fetched", "generate", "bound", "deliver",
                   "done", "aborted" }

(***************************************************************************)
(* Vocabulary of the properties                                            *)
(***************************************************************************)
Feed == response.feed

AllWs(s) == \A i \in 1..Len(s) : s[i].ws

\* the element is absent, has no text, or has only whitespace
RawEmpty(c) == ~c.child \/ ~c.hasText \/ AllWs(c.text)

RawValid(raw) == ~RawEmpty(raw.title) /\ ~RawEmpty(raw.link)

ValidPositions == { i \in 1..Len(Feed) : RawValid(Feed[i]) }

\* the element holds a date that parsedate_to_datetime accepts
RawDateOk(c) == ~RawEmpty(c) /\ \E j \in 1..Len(c.text) : c.text[j].id \in DateIds

RawNaive(c) == \E j \in 1..Len(c.text) : c.text[j].id = "rfc-0000"

\* the position in the feed of the raw item a word was taken from
HasWordOf(s, i) == \E j \in 1..Len(s) : ~s[j].ws /\ s[j].k = i
FromRaw(it, i) == HasWordOf(it.title, i) \/ HasWordOf(it.link, i)

\* the position in the feed of the raw item of a kept item
SrcOf(it) == it.title[1].k

\* the HTTP exchange and the XML parse succeeded
FetchOk == response.net = "ok" /\ response.status < 400 /\ response.wellformed
FetchFailed == response.net # "none" /\ ~FetchOk

LastCall == calls[Len(calls)]
DeliverCalls == { i \in 1..Len(calls) : calls[i].op = "deliver" }

IsWord(c) == ~c.ws
NonWs(s) == SelectSeq(s, IsWord)

HasMarker(s) == \E i \in 1..Len(s) : s[i].id = "(...)"

\* the "couldn't read the feed" text: it says so and names the source
IsReadFailNotice(s) ==
    /\ Len(s) > 1
    /\ \E i \in 1..Len(s) : s[i].id = "ler"
    /\ \E i \in 1..Len(s) : s[i].id = "RSS"
    /\ s[Len(s)] = RssUrl[1]

\* the "no relevant news in the last <days> days" text of the specification
NoNewsNotice(days) == << W("no_relevant_news_in_last_days", days, 40) >>

\* the text before the truncation of lines 165-166
Original == GeneratedText(gen, top5)

\* the generation raised, or returned nothing but whitespace
GenFailed(g) == g.raised # "none" \/ g.isNone \/ AllWs(g.output_text)
Category(g) == IF g.raised # "none" THEN g.raised ELSE "RuntimeError"

\* the words of one "- title / link" entry per item, in order
RECURSIVE EntryWords(_)
EntryWords(its) ==
    IF its = <<>> THEN <<>>
    ELSE << W("-", 0, 1) >> \o NonWs(Head(its).title) \o NonWs(Head(its).link)
         \o EntryWords(Tail(its))

IsFallbackListing(s, its, cat) ==
    LET w == NonWs(s)
    IN  /\ Len(w) >= 11
        /\ w[3].id = "(fallback)"
        /\ w[10].id = "Motivo:"
        /\ w[11].id = cat
        /\ SubSeq(w, 12, Len(w)) = EntryWords(its)

Min(a, b) == IF a < b THEN a ELSE b

(***************************************************************************)
(* Properties                                                              *)
(***************************************************************************)

\* C1: the text handed to the delivery has at most Budget characters, and it
\* contains the truncation marker if and only if the text before the
\* truncation had more than Budget characters.
C1_BoundedWithMarkerIff ==
    pc = "deliver" =>
        /\ StrLen(text) <= Budget
        /\ HasMarker(text) <=> StrLen(Original) > Budget

\* C2: the items selected for the prompt are at most Top, sorted by
\* publication date descending, every undated item after all dated ones; with
\* more than Top dated items in the feed the Top most recent are selected.
C2_RankedSelection ==
    pc = "generate" =>
        /\ Len(top5) <= Top
        /\ \A i, j \in 1..Len(top5) : i < j =>
              /\ ~(top5[i].published_dt.isNone /\ ~top5[j].published_dt.isNone)
              /\ (~top5[i].published_dt.isNone /\ ~top5[j].published_dt.isNone)
                    => Instant(top5[i].published_dt) >= Instant(top5[j].published_dt)
        /\ Cardinality({ i \in ValidPositions : RawDateOk(Feed[i].pubDate) }) > Top =>
              /\ Len(top5) = Top
              /\ \A j \in 1..Len(top5) : ~top5[j].published_dt.isNone
              /\ \A i \in ValidPositions :
                    (RawDateOk(Feed[i].pubDate) /\ \A j \in 1..Len(top5) : SrcOf(top5[j]) # i)
                    => \A j \in 1..Len(top5) :
                          Instant(top5[j].published_dt)
                            >= Instant(PublishedDt(GetText(Feed[i].pubDate)))

\* C3: after a failed fetch (transport error, error status, malformed
\* document) the run does not abort: it is on its way to the delivery of the
\* "couldn't read the feed" notice, or has attempted exactly that delivery.
C3_FetchFailureNotice ==
    FetchFailed =>
        \/ pc = "fetched"
        \/ /\ Len(calls) = 2
           /\ LastCall.op = "deliver"
           /\ IsReadFailNotice(LastCall.arg)

\* C4: with a non-empty selection, a generation that raises or returns blank
\* text never aborts the run; the text handed on is the fallback listing, one
\* "title + link" entry per selected item in the selected order, tagged with
\* the failure category; a non-blank generation is handed on as it is.
C4_FallbackListing ==
    /\ (calls # <<>> /\ LastCall.op = "generate") => (pc \in { "bound", "deliver" } /\ err = "none")
    /\ (pc = "bound" /\ GenFailed(gen)) =>
          /\ top5 # <<>>
          /\ IsFallbackListing(text, top5, Category(gen))
    /\ (pc = "bound" /\ ~GenFailed(gen)) =>
          /\ text = Strip(gen.output_text)
          /\ \A i \in 1..Len(text) : text[i].id # "(fallback)"
    /\ (pc = "deliver" /\ GenFailed(gen) /\ StrLen(Original) <= Budget) =>
          IsFallbackListing(text, top5, Category(gen))

C4_Witness ==
    /\ pc = "deliver"
    /\ gen.raised = "PermissionDenied"
    /\ Len(top5) = Top
    /\ IsFallbackListing(text, top5, "PermissionDenied")

C7_NoCandidateWithoutTitleOrLink ==
    pc = "fetched" =>
        /\ \A i \in 1..Len(Feed) :
              (RawEmpty(Feed[i].title) \/ RawEmpty(Feed[i].link))
              => \A j \in 1..Len(items) : ~FromRaw(items[j], i)
        /\ \A j \in 1..Len(items) :
              /\ items[j].title # EmptyStr
              /\ items[j].link # EmptyStr
              /\ \E i \in 1..Len(Feed) :
                    /\ items[j].title = Strip(Feed[i].title.text)
                    /\ items[j].link = Strip(Feed[i].link.text)

C7_Witness ==
    /\ pc = "fetched"
    /\ items # <<>>
    /\ \E i \in 1..Len(Feed) : RawEmpty(Feed[i].title) \/ RawEmpty(Feed[i].link)

\* C9: an item whose pubDate is absent, empty or unparsable gets the date
\* None, and fetch_rss_items does not raise because of it: after a good HTTP
\* exchange and XML parse it raises only when two kept items carry parsable
\* dates, one with a zone and one without.
C9_DateNeverRaises ==
    /\ pc = "fetched" =>
          \A j \in 1..Len(items) :
              ~RawDateOk(Feed[SrcOf(items[j])].pubDate) => items[j].published_dt.isNone
    /\ (FetchOk /\ pc = "aborted" /\ Len(calls) = 1) =>
          \E a, b \in ValidPositions :
              /\ RawDateOk(Feed[a].pubDate)
              /\ RawDateOk(Feed[b].pubDate)
              /\ RawNaive(Feed[a].pubDate)
              /\ ~RawNaive(Feed[b].pubDate)

C9_Witness ==
    /\ pc = "fetched"
    /\ \E j \in 1..Len(items) :
          /\ \E m \in 1..Len(items[j].pub_raw) : items[j].pub_raw[m].id = "junk"
          /\ items[j].published_dt.isNone
    /\ \E j \in 1..Len(items) : ~items[j].published_dt.isNone

\* C8: a text of at most Budget characters is delivered unchanged; a longer
\* one becomes its first Budget - len(marker) characters followed by the
\* marker, Budget characters in all.
C8_ExactTruncation ==
    pc = "deliver" =>
        IF StrLen(Original) <= Budget THEN text = Original
        ELSE /\ text = Concat(Prefix(Original, Budget - StrLen(Placeholder)), Placeholder)
             /\ StrLen(text) = Budget

\* C10: the delivery is called at most once and nothing is called after it;
\* when the transport fails or answers with an error status the run aborts
\* with that error, otherwise the run is over.
C10_DeliverOnceFatal ==
    \A i \in DeliverCalls :
        /\ i = Len(calls)
        /\ pc \in { "done", "aborted" }
        /\ (calls[i].net # "ok" \/ calls[i].status >= 400) => (pc = "aborted" /\ err # "none")
        /\ pc = "aborted" => err # "none"

C10_Witness ==
    /\ pc = "aborted"
    /\ DeliverCalls # {}
    /\ LastCall.status = 400
    /\ err = "HTTPError"

====
